---- MODULE Spec2Model ----
\* Library audiobook finder (libby-lists-checker): the workflow orchestrator
\* (workflow.py) and the stage runners it launches (search_combined.py,
\* refine_audiobooks.py, check_availability.py).
EXTENDS Integers, Sequences, FiniteSets, TLC

VARIABLES
    \* ---- workflow.py (one run of main) ----
    args,       \* parsed command line: [source, limit, delay]
    stages,     \* the set `stages` of main
    pc,         \* position of main
    child,      \* the subprocess run_command is blocked on, or NoChild
    fs,         \* the artifacts that exist on disk
    launched,   \* history: one entry per subprocess.run call
    skipped,    \* history: the stages skipped with a warning
    exitCode,   \* exit code of workflow.py (NotExited while running)
    invalid,    \* the artifacts on disk whose content is not valid JSON
    \* ---- the stage runners, run one after the other ----
    harvest,            \* the harvest artifacts: file -> [exists, authors]
    authors,            \* search_authors: the list being searched
    results,            \* search_authors: the dict `results`
    fetches,            \* history: the outbound fetches, in order
    searchArtifact,     \* the artifact search_authors writes
    refined,            \* refine_results: the dict it returns
    refinedArtifact,    \* the JSON artifact save_refined_results writes
    checked,            \* check_all_books: the counter `checked`
    available_books,    \* check_all_books: the list it builds
    availableArtifact,  \* the artifact save_results writes
    scraped,            \* scrape_episodes: the list scrape_all_episodes returned
    harvestArtifact,    \* the episodes artifact save_to_json writes
    rerefined,          \* refine_results run on the refined artifact
    refineReport,       \* what refinement reports as changed
    \* ---- one call of a function of the stage runners ----
    call                \* [fn, in, out]

wfVars == <<stages, child, fs, launched, skipped, exitCode, invalid>>
auxVars == <<scraped, harvestArtifact, rerefined, call>>
stageVars == <<harvest, authors, results, fetches, searchArtifact, refined,
               refinedArtifact, checked, available_books, availableArtifact,
               refineReport, auxVars>>
vars == <<args, pc, wfVars, stageVars>>

-----------------------------------------------------------------------------
\* Bounds of the model
MaxLimit == 1          \* --limit values 0..MaxLimit (and absent)
MaxStagesLen == 2      \* length of the list given to --stages
MaxAuthors == 1        \* authors in one harvest artifact
MaxItems == 2          \* items in one titleCollection array
MaxEpisodes == 2       \* episodes scrape_all_episodes returns
MaxEntries == 3        \* entries scrape_hugo_awards returns

-----------------------------------------------------------------------------
\* Text. A string is a sequence of one-character strings (ASCII only).

LowerOf ==
    ("A" :> "a") @@ ("B" :> "b") @@ ("C" :> "c") @@ ("D" :> "d") @@ ("E" :> "e") @@
    ("F" :> "f") @@ ("G" :> "g") @@ ("H" :> "h") @@ ("I" :> "i") @@ ("J" :> "j") @@
    ("K" :> "k") @@ ("L" :> "l") @@ ("M" :> "m") @@ ("N" :> "n") @@ ("O" :> "o") @@
    ("P" :> "p") @@ ("Q" :> "q") @@ ("R" :> "r") @@ ("S" :> "s") @@ ("T" :> "t") @@
    ("U" :> "u") @@ ("V" :> "v") @@ ("W" :> "w") @@ ("X" :> "x") @@ ("Y" :> "y") @@
    ("Z" :> "z")

UpperLetters == DOMAIN LowerOf
LowerLetters == {LowerOf[c] : c \in UpperLetters}
Digits == {"0", "1", "2", "3", "4", "5", "6", "7", "8", "9"}

\* str.lower() on one character
Lower(c) == IF c \in UpperLetters THEN LowerOf[c] ELSE c

\* the regular expression classes \w and \s
IsWord(c) == c \in UpperLetters \cup LowerLetters \cup Digits \cup {"_"}
IsSpace(c) == c \in {" ", "\t", "\n", "\r"}

LowerStr(s) == [i \in 1..Len(s) |-> Lower(s[i])]

\* re.sub(r'[^\w\s]', '', name)
RemovePunctuation(s) == SelectSeq(s, LAMBDA c : IsWord(c) \/ IsSpace(c))

\* ' '.join(name.split()): runs of whitespace become one space, leading and
\* trailing whitespace is dropped
JoinSplit(s) ==
    LET n == Len(s)
        interior(i) == /\ i > 1 /\ ~IsSpace(s[i - 1])
                       /\ \E j \in (i + 1)..n : ~IsSpace(s[j])
        marked == [i \in 1..n |->
                     IF IsSpace(s[i]) THEN (IF interior(i) THEN " " ELSE "")
                     ELSE s[i]]
    IN  SelectSeq(marked, LAMBDA c : c # "")

normalize_name(name) == JoinSplit(RemovePunctuation(LowerStr(name)))

\* a in b for Python strings (substring test)
IsSubstring(a, b) ==
    \E k \in 0..(Len(b) - Len(a)) : \A i \in 1..Len(a) : b[k + i] = a[i]

\* s.startswith(prefix)
StartsWith(s, prefix) ==
    Len(s) >= Len(prefix) /\ \A i \in 1..Len(prefix) : s[i] = prefix[i]

\* bytes.decode('unicode_escape').  A backslash starts an escape: \n, \t, \"
\* and \\ give their character, \x takes exactly two hexadecimal digits, an
\* escape the codec does not know (\/) is kept as written.  A truncated \x
\* escape and a backslash at the end raise UnicodeDecodeError.  (The other
\* escapes of the codec, \u, \U, \N, octal digits and \a \b \f \r \v, do not
\* occur in the texts of the model.)
UnicodeDecodeError == <<"UnicodeDecodeError">>
HexDigits == Digits \cup {"a", "b", "c", "d", "e", "f", "A", "B", "C", "D", "E", "F"}
SimpleEscapes == ("n" :> "\n") @@ ("t" :> "\t") @@ ("\"" :> "\"") @@ ("\\" :> "\\")
LatinChar == (<<"4", "1">> :> "A") @@ (<<"2", "0">> :> " ") @@ (<<"3", "c">> :> "<")

RECURSIVE DecodeFrom(_, _)
DecodeFrom(s, i) ==
    IF i > Len(s) THEN <<>>
    ELSE IF s[i] # "\\" THEN <<s[i]>> \o DecodeFrom(s, i + 1)
    ELSE IF i = Len(s) THEN UnicodeDecodeError
    ELSE IF s[i + 1] \in DOMAIN SimpleEscapes
    THEN <<SimpleEscapes[s[i + 1]]>> \o DecodeFrom(s, i + 2)
    ELSE IF s[i + 1] = "x"
    THEN (IF i + 3 <= Len(s) /\ s[i + 2] \in HexDigits /\ s[i + 3] \in HexDigits
          THEN <<LatinChar[<<s[i + 2], s[i + 3]>>]>> \o DecodeFrom(s, i + 4)
          ELSE UnicodeDecodeError)
    ELSE <<s[i], s[i + 1]>> \o DecodeFrom(s, i + 2)

\* Whether the decoding raises, and what it returns when it does not
DecodeRaises(s) ==
    \E i \in 1..Len(DecodeFrom(s, 1)) : DecodeFrom(s, 1)[i] = UnicodeDecodeError[1]
unicode_escape(s) == DecodeFrom(s, 1)

\* re.sub(r'<[^>]+>', '', description): a "<", at least one character that is
\* not ">", and the first ">" after them are removed
RECURSIVE RemoveTags(_, _)
RemoveTags(s, i) ==
    IF i > Len(s) THEN <<>>
    ELSE IF /\ s[i] = "<"
            /\ i < Len(s)
            /\ s[i + 1] # ">"
            /\ \E j \in (i + 2)..Len(s) : s[j] = ">"
    THEN LET close == CHOOSE j \in (i + 2)..Len(s) :
                         s[j] = ">" /\ \A k \in (i + 2)..(j - 1) : s[k] # ">"
         IN  RemoveTags(s, close + 1)
    ELSE <<s[i]>> \o RemoveTags(s, i + 1)

\* check_availability.clean_html_description: tags removed, entities decoded
\* (html.unescape changes nothing in a text without "&", and the texts of the
\* model hold none), runs of whitespace made one space, and the ends stripped
clean_html_description(description) == JoinSplit(RemoveTags(description, 1))

\* difflib.SequenceMatcher (isjunk None; autojunk acts only from 200 elements).
\* RunLength: the length of the common run of a and b that starts at (i, j) and
\* stays inside a[..ahi], b[..bhi].
RECURSIVE RunLength(_, _, _, _, _, _)
RunLength(a, b, i, j, ahi, bhi) ==
    IF i > ahi \/ j > bhi \/ a[i] # b[j] THEN 0
    ELSE 1 + RunLength(a, b, i + 1, j + 1, ahi, bhi)

\* find_longest_match(alo, ahi, blo, bhi): the longest block, of those the one
\* that starts earliest in a, of those the one that starts earliest in b
find_longest_match(a, b, alo, ahi, blo, bhi) ==
    LET pairs == (alo..ahi) \X (blo..bhi)
        len(p) == RunLength(a, b, p[1], p[2], ahi, bhi)
        best == IF pairs = {} THEN 0
                ELSE CHOOSE k \in {len(p) : p \in pairs} :
                        \A q \in pairs : len(q) <= k
    IN  IF best = 0 THEN <<alo, blo, 0>>
        ELSE LET cands == {p \in pairs : len(p) = best}
                 i == CHOOSE x \in {p[1] : p \in cands} :
                         \A p \in cands : x <= p[1]
                 j == CHOOSE y \in {p[2] : p \in {q \in cands : q[1] = i}} :
                         \A p \in {q \in cands : q[1] = i} : y <= p[2]
             IN  <<i, j, best>>

\* The total size of get_matching_blocks() on a[alo..ahi], b[blo..bhi]
RECURSIVE MatchingSize(_, _, _, _, _, _)
MatchingSize(a, b, alo, ahi, blo, bhi) ==
    LET m == find_longest_match(a, b, alo, ahi, blo, bhi)
    IN  IF m[3] = 0 THEN 0
        ELSE m[3]
             + MatchingSize(a, b, alo, m[1] - 1, blo, m[2] - 1)
             + MatchingSize(a, b, m[1] + m[3], ahi, m[2] + m[3], bhi)

\* threshold = 0.85 as the fraction ThresholdNum / ThresholdDen
ThresholdNum == 85
ThresholdDen == 100

\* SequenceMatcher(None, a, b).ratio() >= num / den, where ratio() is
\* 2.0 * matches / (len(a) + len(b)), and 1.0 when both are empty.  For the
\* lengths of a name the comparison of the two doubles agrees with the
\* comparison of the exact fractions.
RatioAtLeast(a, b, num, den) ==
    LET matches == MatchingSize(a, b, 1, Len(a), 1, Len(b))
        length == Len(a) + Len(b)
    IN  IF length = 0 THEN den >= num
        ELSE 2 * matches * den >= num * length

RatioAtLeastThreshold(a, b) == RatioAtLeast(a, b, ThresholdNum, ThresholdDen)

\* names_match without the containment test
names_match_NoContainment(searched_author, book_author, num, den) ==
    LET search_norm == normalize_name(searched_author)
        book_norm == normalize_name(book_author)
    IN  IF search_norm = book_norm THEN TRUE
        ELSE RatioAtLeast(search_norm, book_norm, num, den)

\* names_match whose containment test wants a non-empty contained name
names_match_NonEmptyContained(searched_author, book_author, num, den) ==
    LET search_norm == normalize_name(searched_author)
        book_norm == normalize_name(book_author)
    IN  IF search_norm = book_norm THEN TRUE
        ELSE IF \/ (search_norm # <<>> /\ IsSubstring(search_norm, book_norm))
                \/ (book_norm # <<>> /\ IsSubstring(book_norm, search_norm)) THEN TRUE
        ELSE RatioAtLeast(search_norm, book_norm, num, den)

\* names_match called with a threshold (threshold = num / den)
names_match_threshold(searched_author, book_author, num, den) ==
    LET search_norm == normalize_name(searched_author)
        book_norm == normalize_name(book_author)
    IN  IF search_norm = book_norm THEN TRUE
        ELSE IF IsSubstring(search_norm, book_norm)
                \/ IsSubstring(book_norm, search_norm) THEN TRUE
        ELSE RatioAtLeast(search_norm, book_norm, num, den)

\* names_match with the threshold lowered to 0.75
names_match_LowThreshold(searched_author, book_author) ==
    LET search_norm == normalize_name(searched_author)
        book_norm == normalize_name(book_author)
        matches == MatchingSize(search_norm, book_norm, 1, Len(search_norm),
                                1, Len(book_norm))
    IN  \/ search_norm = book_norm
        \/ IsSubstring(search_norm, book_norm)
        \/ IsSubstring(book_norm, search_norm)
        \/ 2 * matches * 100 >= 75 * (Len(search_norm) + Len(book_norm))

\* names_match with its default threshold
names_match(searched_author, book_author) ==
    names_match_threshold(searched_author, book_author, ThresholdNum, ThresholdDen)

-----------------------------------------------------------------------------
\* Artifact names

BBCEpisodes == "data/bbc_world_book_club_episodes.json"
BBCAuthors == "data/bbc_world_book_club_authors.json"
HugoNominees == "data/hugo_award_nominees.json"
HugoAuthors == "data/hugo_award_authors.json"
BookerAuthors == "data/booker_prize_authors.json"

SearchResultsPath(s) == "data/" \o s \o "_audiobook_search_results.json"
RefinedPath(s) == "data/" \o s \o "_audiobook_search_results_refined.json"
AvailablePath(s) == "data/" \o s \o "_available_audiobooks.json"

\* The defaults of refine_results / save_refined_results
DefaultRefineInput == "audiobook_search_results.json"
DefaultRefineOutput == "audiobook_search_results_refined.json"

-----------------------------------------------------------------------------
\* Command lines

NoLimit == -1          \* --limit absent (None)
NoChild == [script |-> "none"]
NotExited == -1

WorkflowSourceChoices == {"bbc", "hugo", "both"}
SearchSourceChoices == {"bbc", "hugo", "booker", "all"}
E2ESources == {"bbc", "hugo", "booker", "nobel"}
StageChoices == {"scrape", "search", "refine", "availability"}
AllStages == {"scrape", "search", "refine", "availability"}

\* Every --source value some caller passes to workflow.py
SourceInputs == WorkflowSourceChoices \cup E2ESources

\* The lists --stages can hold (nargs='+'); <<>> stands for the option absent
StageLists == UNION {[1..n -> StageChoices] : n \in 0..MaxStagesLen}

LimitInputs == {NoLimit} \cup (0..MaxLimit)

\* Python truthiness of args.limit (None and 0 are falsy)
LimitSet(limit) == limit # NoLimit /\ limit # 0

\* Delays, in tenths of a second
NoDelay == -1                    \* no --delay on a command line; no sleep
WorkflowDefaultDelay == 20       \* workflow.py --delay (default: 2.0)
SearchDefaultDelay == 20         \* search_combined.py --delay (default: 2.0)
AvailabilityDefaultDelay == 5    \* check_availability.py --delay (default: 0.5)

\* The --delay values of a workflow.py run: its default, or 0.5 given
DelayInputs == {WorkflowDefaultDelay, AvailabilityDefaultDelay}

Cmd(script, source, input, output, limit, delay) ==
    [script |-> script, source |-> source, input |-> input, output |-> output,
     limit |-> limit, delay |-> delay]

\* argparse of a stage runner: the --delay given, or the runner's default
ParsedDelay(cmd, default) == IF cmd.delay = NoDelay THEN default ELSE cmd.delay

\* cmd.extend(['--limit', str(args.limit)]) under `if args.limit:`
WithLimit(limit) == IF LimitSet(limit) THEN limit ELSE NoLimit

ScrapeBBCCmd ==
    Cmd("scrape_episodes.py", "", "", "", WithLimit(args.limit), NoDelay)
ScrapeHugoCmd ==
    Cmd("scrape_hugo_awards.py", "", "", "", WithLimit(args.limit), NoDelay)
SearchCmd ==
    Cmd("search_combined.py", args.source, "", "", WithLimit(args.limit),
        args.delay)
RefineCmd ==
    Cmd("refine_audiobooks.py", "", SearchResultsPath(args.source), "",
        WithLimit(args.limit), NoDelay)
AvailabilityCmd ==
    Cmd("check_availability.py", "", RefinedPath(args.source),
        AvailablePath(args.source), WithLimit(args.limit), NoDelay)

StageOf(script) ==
    CASE script = "scrape_episodes.py" -> "scrape"
      [] script = "scrape_hugo_awards.py" -> "scrape"
      [] script = "search_combined.py" -> "search"
      [] script = "refine_audiobooks.py" -> "refine"
      [] script = "check_availability.py" -> "availability"

-----------------------------------------------------------------------------
\* What a stage runner does as a subprocess, at the level of artifacts:
\* the set of (exit code, files read, files written) it can end with.

Outcome(rc, reads, writes) == [rc |-> rc, reads |-> reads, writes |-> writes]

\* scrape_episodes.py main: nothing scraped -> nothing saved, exit 0
ScrapeBBCOutcomes ==
    { Outcome(0, {}, {BBCEpisodes, BBCAuthors}),
      Outcome(0, {}, {}),
      Outcome(1, {}, {}) }

\* scrape_hugo_awards.py main
ScrapeHugoOutcomes ==
    { Outcome(0, {}, {HugoNominees, HugoAuthors}),
      Outcome(0, {}, {}),
      Outcome(1, {}, {}) }

\* The harvest artifacts search_combined.py loads for a --source value
AuthorFiles(source) ==
    (IF source \in {"bbc", "all"} THEN {BBCAuthors, BBCEpisodes} ELSE {})
    \cup (IF source \in {"hugo", "all"} THEN {HugoAuthors} ELSE {})
    \cup (IF source \in {"booker", "all"} THEN {BookerAuthors} ELSE {})

\* load_bbc_authors: the files it opens, in order.  bad: the files that are not
\* valid JSON; some: the valid files that hold at least one author
BBCOpens(files, bad, some) ==
    IF BBCAuthors \in files
    THEN IF BBCAuthors \in bad \/ BBCAuthors \in some THEN <<BBCAuthors>>
         ELSE <<BBCAuthors>> \o (IF BBCEpisodes \in files THEN <<BBCEpisodes>> ELSE <<>>)
    ELSE IF BBCEpisodes \in files THEN <<BBCEpisodes>> ELSE <<>>

\* search_combined.py main: the harvest files it opens, in order, when no
\* json.load fails
SearchOpens(source, files, bad, some) ==
    (IF source \in {"bbc", "all"} THEN BBCOpens(files, bad, some) ELSE <<>>)
    \o (IF source \in {"hugo", "all"} /\ HugoAuthors \in files
        THEN <<HugoAuthors>> ELSE <<>>)
    \o (IF source \in {"booker", "all"} /\ BookerAuthors \in files
        THEN <<BookerAuthors>> ELSE <<>>)

\* The files of opens up to and including the first that is not valid JSON
\* (json.load raises there and nothing later is opened)
ReadUntilBad(opens, bad) ==
    {opens[i] : i \in {k \in 1..Len(opens) :
                         \A j \in 1..(k - 1) : opens[j] \notin bad}}

\* search_combined.py main with the workflow's command line (no --output)
SearchOutcomes(cmd, files, bad) ==
    IF cmd.source \notin SearchSourceChoices
    THEN { Outcome(2, {}, {}) }                      \* argparse: invalid choice
    ELSE LET out == IF cmd.output = "" THEN SearchResultsPath(cmd.source)
                    ELSE cmd.output
             ends(some) ==
                LET opens == SearchOpens(cmd.source, files, bad, some)
                    reads == ReadUntilBad(opens, bad)
                IN  IF reads \cap bad # {}
                    THEN { Outcome(1, reads, {}) }   \* json.load raises
                    ELSE IF reads \cap some = {}
                    THEN { Outcome(0, reads, {}) }   \* "No authors found", return
                    ELSE { Outcome(0, reads, {out}),
                           Outcome(1, reads, {}) }   \* any other uncaught exception
         IN  UNION { ends(some) :
                       some \in SUBSET ((AuthorFiles(cmd.source) \cap files) \ bad) }

\* refine_audiobooks.py main: no argument parsing; refine_results() and
\* save_refined_results() are called with their default file names
RefineOutcomes(cmd, files, bad) ==
    IF DefaultRefineInput \notin files
    THEN { Outcome(1, {}, {}) }                      \* FileNotFoundError
    ELSE IF DefaultRefineInput \in bad
    THEN { Outcome(1, {DefaultRefineInput}, {}) }    \* json.load raises
    ELSE { Outcome(0, {DefaultRefineInput}, {DefaultRefineOutput}),
           Outcome(1, {DefaultRefineInput}, {}) }    \* any other uncaught exception

\* check_availability.py main opening its output before it loads its input
AvailabilityOutcomes_OutputFirst(cmd, files, bad) ==
    IF cmd.input \in files
    THEN { Outcome(0, {cmd.input}, {cmd.output}),
           Outcome(1, {cmd.input}, {cmd.output}) }
    ELSE { Outcome(1, {}, {cmd.output}) }

\* check_availability.py main
AvailabilityOutcomes(cmd, files, bad) ==
    IF cmd.input \notin files
    THEN { Outcome(1, {}, {}) }                      \* FileNotFoundError
    ELSE IF cmd.input \in bad
    THEN { Outcome(1, {cmd.input}, {}) }             \* json.load raises
    ELSE { Outcome(0, {cmd.input}, {cmd.output}),
           Outcome(1, {cmd.input}, {}) }             \* any other uncaught exception

ChildOutcomes(cmd, files, bad) ==
    CASE cmd.script = "scrape_episodes.py" -> ScrapeBBCOutcomes
      [] cmd.script = "scrape_hugo_awards.py" -> ScrapeHugoOutcomes
      [] cmd.script = "search_combined.py" -> SearchOutcomes(cmd, files, bad)
      [] cmd.script = "refine_audiobooks.py" -> RefineOutcomes(cmd, files, bad)
      [] cmd.script = "check_availability.py" -> AvailabilityOutcomes(cmd, files, bad)

\* The files a stage runner needs at least one of to have an input
RequiredInputs(cmd) ==
    CASE cmd.script = "search_combined.py" -> AuthorFiles(cmd.source)
      [] cmd.script = "refine_audiobooks.py" -> {DefaultRefineInput}
      [] cmd.script = "check_availability.py" -> {cmd.input}
      [] OTHER -> {}

-----------------------------------------------------------------------------
\* The data of the stage runners

\* Author names, as harvested and as the catalog reports them
ASByattDots == <<"A", ".", "S", ".", " ", "B", "y", "a", "t", "t">>
ASByatt == <<"A", "S", " ", "B", "y", "a", "t", "t">>
JaneDoe == <<"J", "a", "n", "e", " ", "D", "o", "e">>
JDoe == <<"J", ".", " ", "D", "o", "e">>

TomSmith == <<"T", "o", "m", " ", "S", "m", "i", "t", "h">>
JohnDoe == <<"J", "o", "h", "n", " ", "D", "o", "e">>
AlAnna == <<"A", "l", " ", "A", "n", "n", "a">>
AlNana == <<"A", "l", " ", "N", "a", "n", "a">>
JaneDoeSpaced == <<" ", "J", "A", "N", "E", " ", " ", "d", "o", "e", " ">>
OnlyDots == <<".", ".", ".">>

\* The harvested names, in the order sorted() gives them
HarvestNames == <<ASByattDots, ASByatt, JaneDoe>>

\* Sorted lists without repetition, of at most MaxAuthors names: what the
\* scrapers save with sorted(list(set(...)))
AuthorLists ==
    { [i \in 1..Len(ix) |-> HarvestNames[ix[i]]] :
        ix \in { q \in UNION {[1..n -> 1..Len(HarvestNames)] : n \in 0..MaxAuthors} :
                   \A i \in 1..(Len(q) - 1) : q[i] < q[i + 1] } }

NoFile == [exists |-> FALSE, authors |-> <<>>]
File(list) == [exists |-> TRUE, authors |-> list]
HarvestFiles == {BBCAuthors, BBCEpisodes, HugoAuthors, BookerAuthors}

\* Catalog items (elements of window.OverDrive.titleCollection)
ItemX == [title |-> "X", firstCreatorName |-> JDoe, id |-> "1001",
          isAvailable |-> TRUE, formats |-> <<"OverDrive Listen audiobook">>]
ItemY == [title |-> "Y", firstCreatorName |-> JaneDoe, id |-> "1002",
          isAvailable |-> FALSE, formats |-> <<"OverDrive Listen audiobook">>]
ItemP == [title |-> "Possession", firstCreatorName |-> ASByatt, id |-> "1003",
          isAvailable |-> TRUE, formats |-> <<>>]
ItemZ == [title |-> "Z", firstCreatorName |-> JaneDoe, id |-> "1004",
          isAvailable |-> TRUE, formats |-> <<"OverDrive Listen audiobook">>]
ItemAnon == [title |-> "Anon", firstCreatorName |-> OnlyDots, id |-> "1005",
             isAvailable |-> TRUE, formats |-> <<>>]

\* The titleCollection arrays of at most MaxItems items
ItemLists == UNION {[1..n -> {ItemX, ItemY, ItemP}] : n \in 0..MaxItems}

\* What a search request can come back with: a transport failure, or a page
\* with an optional "Showing 1-n of N results" heading (NoHeading: absent or
\* not matching) and an optional titleCollection array
NoHeading == -1
SearchFailure == [ok |-> FALSE, heading |-> NoHeading, array |-> "missing", items |-> <<>>]
SearchPage(heading, array, items) ==
    [ok |-> TRUE, heading |-> heading, array |-> array, items |-> items]
SearchResponses ==
    { SearchFailure,
      SearchPage(5, "missing", <<>>),
      SearchPage(3, "parsed", <<ItemX>>),
      SearchPage(NoHeading, "parsed", <<ItemY, ItemP, ItemZ>>) }

\* What a detail-page request can come back with: a transport failure, or a
\* body with optional "availableCopies":n, "ownedCopies":n, "isAvailable":flag
\* and description candidates (the titleCollection description, the article
\* block)
Absent == -1
NoDescription == <<"None">>

\* JSON string literals of the "description" field, as the page holds them,
\* and the markup inside the description <article> block
NovelLiteral == <<"A", " ", "n", "o", "v", "e", "l", ".">>
BisacLiteral == <<"F", "I", "C", "T", "I", "O", "N", " ", "/", " ", "W", "a", "r">>
TaggedBisacLiteral ==
    <<"<", "b", ">", "F", "i", "c", "t", "i", "o", "n", " ", "/", "W", "a", "r">>
EscapedLiteral == <<"<", "p", ">", "\\", "x", "4", "1", "\\", "n", "t", "a", "l", "e">>
BadEscapeLiteral == <<"1", "0", "0", "\\", "x", " ", "b", "i", "g">>
AboutArticle == <<"<", "p", ">", "A", "b", "o", "u", "t", ".", "<", "/", "p", ">">>
ProbeFailure ==
    [ok |-> FALSE, availableCopies |-> Absent, ownedCopies |-> Absent,
     isAvailable |-> "absent", jsonDescription |-> NoDescription,
     article |-> NoDescription]
ProbeBody(a, o, flag, jd, art) ==
    [ok |-> TRUE, availableCopies |-> a, ownedCopies |-> o, isAvailable |-> flag,
     jsonDescription |-> jd, article |-> art]
ProbeResponses ==
    { ProbeFailure,
      ProbeBody(1, 1, "true", NovelLiteral, NoDescription),
      ProbeBody(0, 2, "false", BisacLiteral, AboutArticle),
      ProbeBody(Absent, Absent, "true", NoDescription, NoDescription),
      ProbeBody(1, 1, "true", BadEscapeLiteral, NoDescription) }

\* description.startswith('FICTION ') or description.startswith('Fiction /')
LooksLikeBisac(d) ==
    \/ StartsWith(d, <<"F", "I", "C", "T", "I", "O", "N", " ">>)
    \/ StartsWith(d, <<"F", "i", "c", "t", "i", "o", "n", " ", "/">>)

-----------------------------------------------------------------------------
\* A Python dict: a sequence of entries with distinct keys, in insertion order

DictKeys(d) == [i \in 1..Len(d) |-> d[i].key]
HasKey(d, k) == \E i \in 1..Len(d) : d[i].key = k
DictSet(d, k, v) ==
    IF HasKey(d, k)
    THEN [i \in 1..Len(d) |-> IF d[i].key = k THEN [key |-> k, value |-> v] ELSE d[i]]
    ELSE Append(d, [key |-> k, value |-> v])

NoArtifact == [written |-> FALSE, path |-> "", data |-> <<>>]
NoCall == [fn |-> "none", done |-> FALSE]
NoReport == [authors_changed |-> <<>>, changes_csv |-> {}]
Artifact(path, data) == [written |-> TRUE, path |-> path, data |-> data]

-----------------------------------------------------------------------------
\* search_audiobooks.py

\* urllib.parse.quote on one character
QuoteChar(c) ==
    IF IsWord(c) \/ c \in {".", "-", "~", "/"} THEN c
    ELSE IF c = " " THEN "%20"
    ELSE "%??"

Quote(s) == [i \in 1..Len(s) |-> QuoteChar(s[i])]

base_url == "https://westerncape.overdrive.com"
EmptyUrl == <<>>

search_url(author_name) ==
    <<base_url, "/search?query=">> \o Quote(author_name)
      \o <<"&format=audiobook-overdrive%2Caudiobook-overdrive-provisional&sortBy=relevance">>

BookOfItem(item) ==
    [title |-> item.title, author |-> item.firstCreatorName, id |-> item.id,
     available |-> item.isAvailable, formats |-> item.formats]

NoResult == [none |-> TRUE, count |-> 0, books |-> <<>>, url |-> EmptyUrl]

\* search_audiobooks_for_author whose count is the heading's number whenever
\* the heading parses
search_audiobooks_for_author_HeadingWins(author_name, resp) ==
    IF ~resp.ok THEN NoResult
    ELSE LET parsed == resp.array = "parsed"
         IN  [none |-> FALSE,
              count |-> IF resp.heading # NoHeading THEN resp.heading
                        ELSE IF parsed THEN Len(resp.items) ELSE 0,
              books |-> IF parsed
                        THEN [i \in 1..Len(resp.items) |-> BookOfItem(resp.items[i])]
                        ELSE <<>>,
              url |-> search_url(author_name)]

\* search_audiobooks_for_author with the response the request came back with
search_audiobooks_for_author(author_name, resp) ==
    IF ~resp.ok THEN NoResult
    ELSE LET fromHeading == IF resp.heading # NoHeading THEN resp.heading ELSE 0
             parsed == resp.array = "parsed"
         IN  [none |-> FALSE,
              count |-> IF parsed THEN Len(resp.items) ELSE fromHeading,
              books |-> IF parsed
                        THEN [i \in 1..Len(resp.items) |-> BookOfItem(resp.items[i])]
                        ELSE <<>>,
              url |-> search_url(author_name)]

-----------------------------------------------------------------------------
\* Python lists

\* The elements of list at the indices in keep, in order
RECURSIVE SelectIndices(_, _, _)
SelectIndices(list, keep, i) ==
    IF i > Len(list) THEN <<>>
    ELSE (IF i \in keep THEN <<list[i]>> ELSE <<>>) \o SelectIndices(list, keep, i + 1)

Min(a, b) == IF a < b THEN a ELSE b

\* authors[:limit + 1]
Limited_OneMore(list, limit) ==
    IF limit # NoLimit /\ limit # 0
    THEN SubSeq(list, 1, IF limit + 1 < Len(list) THEN limit + 1 ELSE Len(list))
    ELSE list

\* authors[:limit] under `if limit is not None:`
Limited_ZeroCuts(list, limit) ==
    IF limit # NoLimit THEN SubSeq(list, 1, Min(limit, Len(list))) ELSE list

\* search_authors: authors[:limit] under `if limit:`
Limited(list, limit) ==
    IF LimitSet(limit) THEN SubSeq(list, 1, Min(limit, Len(list))) ELSE list

-----------------------------------------------------------------------------
\* scrape_episodes.py

\* An episode as scrape_page parses it; the author is empty when the title
\* gave none
NoAuthor == <<>>
Episode(author) == [author |-> author]

\* What scrape_all_episodes can return: at most MaxEpisodes episodes
EpisodeLists ==
    UNION {[1..n -> {Episode(JaneDoe), Episode(ASByattDots), Episode(NoAuthor)}] :
             n \in 0..MaxEpisodes}

\* main: sorted(list(authors)), authors the set of the non-empty ep['author']
authors_list(episodes) ==
    SelectIndices(HarvestNames,
                  {i \in 1..Len(HarvestNames) :
                     \E k \in 1..Len(episodes) : episodes[k].author = HarvestNames[i]},
                  1)

\* scrape_episodes.py main after scrape_all_episodes has returned: the limit,
\* then save_to_json and the authors file when there is an episode left
ScrapeMain ==
    /\ pc = "scrape_main"
    /\ LET episodes == Limited(scraped, args.limit)
       IN  IF episodes # <<>>
           THEN /\ harvestArtifact' = Artifact(BBCEpisodes, episodes)
                /\ harvest' = [harvest EXCEPT
                                 ![BBCEpisodes] = File(authors_list(episodes)),
                                 ![BBCAuthors] = File(authors_list(episodes))]
           ELSE UNCHANGED <<harvestArtifact, harvest>>
    /\ pc' = "search_main"
    /\ UNCHANGED <<args, wfVars, refineReport, authors, results, fetches, searchArtifact, refined,
                   refinedArtifact, checked, available_books, availableArtifact,
                   scraped, rerefined, call>>

-----------------------------------------------------------------------------
\* search_combined.py

load_authors_from_json(filename) ==
    IF ~harvest[filename].exists THEN <<>> ELSE harvest[filename].authors

\* The authors file first; the episodes file when it is missing or empty
load_bbc_authors ==
    IF harvest[BBCAuthors].exists /\ load_authors_from_json(BBCAuthors) # <<>>
    THEN load_authors_from_json(BBCAuthors)
    ELSE IF ~harvest[BBCEpisodes].exists THEN <<>>
    ELSE harvest[BBCEpisodes].authors

load_hugo_authors == load_authors_from_json(HugoAuthors)
load_booker_authors == load_authors_from_json(BookerAuthors)

\* main: the list `authors` before deduplication
LoadedAuthors(source) ==
    (IF source \in {"bbc", "all"} THEN load_bbc_authors ELSE <<>>)
    \o (IF source \in {"hugo", "all"} THEN load_hugo_authors ELSE <<>>)
    \o (IF source \in {"booker", "all"} THEN load_booker_authors ELSE <<>>)

\* main: "Remove duplicates while preserving order" (by author.lower())
unique_authors(list) ==
    SelectIndices(list,
                  {i \in 1..Len(list) :
                     ~\E j \in 1..(i - 1) : LowerStr(list[j]) = LowerStr(list[i])},
                  1)

\* search_authors: the entry stored for an author
ResultEntry(result) ==
    IF ~result.none
    THEN [count |-> result.count, books |-> result.books, url |-> result.url]
    ELSE [count |-> 0, books |-> <<>>, url |-> EmptyUrl]

\* The output file of main: --output, or data/{source}_audiobook_search_results.json
SearchOutput == SearchResultsPath(args.source)

StagesIdle ==
    /\ harvest = [f \in HarvestFiles |-> NoFile]
    /\ authors = <<>>
    /\ results = <<>>
    /\ fetches = <<>>
    /\ searchArtifact = NoArtifact
    /\ refined = <<>>
    /\ refinedArtifact = NoArtifact
    /\ checked = 0
    /\ available_books = <<>>
    /\ availableArtifact = NoArtifact
    /\ scraped = <<>>
    /\ harvestArtifact = NoArtifact
    /\ rerefined = <<>>
    /\ refineReport = NoReport
    /\ call = NoCall

\* search_combined.py main up to the call of search_authors
SearchMain ==
    /\ pc = "search_main"
    /\ LET unique == unique_authors(LoadedAuthors(args.source))
       IN  IF LoadedAuthors(args.source) = <<>>
           THEN pc' = "stopped" /\ UNCHANGED authors
           ELSE pc' = "search_loop" /\ authors' = Limited(unique, args.limit)
    /\ UNCHANGED <<args, wfVars, refineReport, auxVars, harvest, results, fetches, searchArtifact, refined,
                   refinedArtifact, checked, available_books, availableArtifact>>

\* main: search_authors(authors, args.output, delay=args.delay, ...), with the
\* command line workflow.py builds for the stage
SearchDelay == ParsedDelay(SearchCmd, SearchDefaultDelay)

\* One iteration of the loop of search_authors; `slept` is the time.sleep that
\* ends the iteration (`if i < len(authors)`)
SearchStep ==
    /\ pc = "search_loop"
    /\ Len(fetches) < Len(authors)
    /\ LET author == authors[Len(fetches) + 1]
       IN  \E resp \in SearchResponses :
              /\ results' = DictSet(results, author,
                               ResultEntry(search_audiobooks_for_author(author, resp)))
              /\ fetches' = Append(fetches,
                               [stage |-> "search", target |-> search_url(author),
                                item |-> author, ok |-> resp.ok, resp |-> resp,
                                slept |-> IF Len(fetches) + 1 < Len(authors)
                                          THEN SearchDelay ELSE NoDelay])
    /\ UNCHANGED <<args, pc, wfVars, refineReport, auxVars, harvest, authors, searchArtifact, refined,
                   refinedArtifact, checked, available_books, availableArtifact>>

\* search_authors: json.dump(results) into output_file
SearchSave ==
    /\ pc = "search_loop"
    /\ Len(fetches) = Len(authors)
    /\ searchArtifact' = Artifact(SearchOutput, results)
    /\ pc' = "refine"
    /\ UNCHANGED <<args, wfVars, refineReport, auxVars, harvest, authors, results, fetches, refined,
                   refinedArtifact, checked, available_books, availableArtifact>>

-----------------------------------------------------------------------------
\* refine_audiobooks.py

\* RefineEntry that stores the searched author as the author of a kept book
RefineEntry_AuthorRewritten(searched_author, data) ==
    LET matching_books ==
            SelectSeq(data.books, LAMBDA book : names_match(searched_author, book.author))
    IN  [count |-> Len(matching_books),
         books |-> [k \in 1..Len(matching_books) |->
                      [matching_books[k] EXCEPT !.author = searched_author]],
         url |-> data.url,
         original_count |-> data.count,
         filtered_count |-> data.count - Len(matching_books)]

\* RefineEntry that takes filtered_count from the number of books dropped
RefineEntry_DroppedBooks(searched_author, data) ==
    LET matching_books ==
            SelectSeq(data.books, LAMBDA book : names_match(searched_author, book.author))
    IN  [count |-> Len(matching_books),
         books |-> matching_books,
         url |-> data.url,
         original_count |-> data.count,
         filtered_count |-> Len(data.books) - Len(matching_books)]

\* refine_results: the entry stored for one searched author
RefineEntry(searched_author, data) ==
    LET original_count == data.count
        matching_books ==
            SelectSeq(data.books, LAMBDA book : names_match(searched_author, book.author))
        refined_count == Len(matching_books)
    IN  [count |-> refined_count,
         books |-> matching_books,
         url |-> data.url,
         original_count |-> original_count,
         filtered_count |-> original_count - refined_count]

refine_results(input) ==
    [i \in 1..Len(input) |->
       [key |-> input[i].key, value |-> RefineEntry(input[i].key, input[i].value)]]

\* clean_results that keeps the count of the search
clean_results_OriginalCount(res) ==
    [i \in 1..Len(res) |->
       [key |-> res[i].key,
        value |-> [count |-> res[i].value.original_count,
                   books |-> res[i].value.books,
                   url |-> res[i].value.url]]]

\* save_refined_results: the JSON it dumps ("a cleaner version without the
\* original_count and filtered_count")
clean_results(res) ==
    [i \in 1..Len(res) |->
       [key |-> res[i].key,
        value |-> [count |-> res[i].value.count, books |-> res[i].value.books,
                   url |-> res[i].value.url]]]

\* refine_results: the list `authors_changed` it reports on the console, as it
\* is before the list is sorted for printing
authors_changed(res) ==
    LET changed == SelectSeq(res, LAMBDA e : e.value.original_count # e.value.count)
    IN  [i \in 1..Len(changed) |->
           [author |-> changed[i].key,
            before |-> changed[i].value.original_count,
            after |-> changed[i].value.count,
            removed |-> changed[i].value.original_count - changed[i].value.count]]

\* save_refined_results: the rows of the _changes.csv file (as a set: the order
\* sorted() gives them is not modelled)
changes_csv(res) ==
    { [author |-> res[i].key,
       original_count |-> res[i].value.original_count,
       count |-> res[i].value.count,
       filtered_count |-> res[i].value.filtered_count] :
        i \in {k \in 1..Len(res) : res[k].value.filtered_count > 0} }

\* refine_results(input_file) on the search artifact, then
\* save_refined_results(results, output_file)
RefineStage ==
    /\ pc = "refine"
    /\ searchArtifact.written
    /\ refined' = refine_results(searchArtifact.data)
    /\ refinedArtifact' = Artifact(RefinedPath(args.source), clean_results(refined'))
    /\ refineReport' = [authors_changed |-> authors_changed(refined'),
                        changes_csv |-> changes_csv(refined')]
    /\ pc' = "probe_loop"
    /\ UNCHANGED <<args, wfVars, auxVars, harvest, authors, results, fetches, searchArtifact,
                   checked, available_books, availableArtifact>>

\* refine_results(input_file) with the refined artifact as its input
RefineAgain ==
    /\ pc = "probe_loop"
    /\ refinedArtifact.written
    /\ rerefined' = refine_results(refinedArtifact.data)
    /\ pc' = "rerefined"
    /\ UNCHANGED <<args, wfVars, refineReport, harvest, authors, results, fetches, searchArtifact,
                   refined, refinedArtifact, checked, available_books,
                   availableArtifact, scraped, harvestArtifact, call>>

\* The input files given to refine_results: any search results, also ones
\* search_authors does not write (a count that differs from the number of
\* books; entries that carry the counts of an earlier refinement)
StaleCounts == [original_count |-> 9, filtered_count |-> 7]
RefineKeys == <<JaneDoe, ASByattDots>>
RefineItemLists ==
    { <<>>, <<ItemX>>, <<ItemY>>, <<ItemP>>,
      <<ItemX, ItemY>>, <<ItemY, ItemX>>, <<ItemY, ItemP>>, <<ItemP, ItemP>>,
      <<ItemX, ItemY, ItemP>>, <<ItemY, ItemX, ItemY>>, <<ItemP, ItemY, ItemZ>>,
      <<ItemAnon>>, <<ItemP, ItemAnon>> }
RefineBooks == {[i \in 1..Len(l) |-> BookOfItem(l[i])] : l \in RefineItemLists}
RefineShapes ==
    { [count |-> n, books |-> books] : n \in {0, 5}, books \in RefineBooks }
    \cup { [count |-> Len(books), books |-> books] : books \in RefineBooks }
    \cup { [count |-> 5, books |-> books] @@ StaleCounts :
             books \in {b \in RefineBooks : Len(b) = 1} }

\* The lists of distinct keys, of at most MaxAuthors keys
RefineKeyLists ==
    { ks \in UNION {[1..n -> {RefineKeys[k] : k \in 1..Len(RefineKeys)}] :
                      n \in 0..MaxAuthors} :
        \A i, j \in 1..Len(ks) : i # j => ks[i] # ks[j] }

\* The input file with the keys ks and, under them, the entries of shapes
RefineInput(ks, shapes) ==
    [i \in 1..Len(ks) |->
       [key |-> ks[i], value |-> shapes[i] @@ [url |-> search_url(ks[i])]]]

InitRefine ==
    /\ args = [source |-> "bbc", limit |-> NoLimit, delay |-> WorkflowDefaultDelay]
    /\ pc = "refine"
    /\ \E ks \in RefineKeyLists :
          \E shapes \in [1..Len(ks) -> RefineShapes] :
             searchArtifact = Artifact(SearchResultsPath(args.source),
                                       RefineInput(ks, shapes))
    /\ stages = {}
    /\ child = NoChild
    /\ fs = {}
    /\ launched = <<>>
    /\ skipped = {}
    /\ exitCode = NotExited
    /\ invalid = {}
    /\ harvest = [f \in HarvestFiles |-> NoFile]
    /\ authors = <<>>
    /\ results = <<>>
    /\ fetches = <<>>
    /\ refined = <<>>
    /\ refinedArtifact = NoArtifact
    /\ checked = 0
    /\ available_books = <<>>
    /\ availableArtifact = NoArtifact
    /\ scraped = <<>>
    /\ harvestArtifact = NoArtifact
    /\ rerefined = <<>>
    /\ refineReport = NoReport
    /\ call = NoCall

NextRefine ==
    \/ RefineStage
    \/ RefineAgain

SpecRefine == InitRefine /\ [][NextRefine]_vars

-----------------------------------------------------------------------------
\* check_availability.py

media_url(book_id) == <<"https://westerncape.overdrive.com/media/", book_id>>

\* fetch_availability: whether unescaping the description literal raises
\* (UnicodeDecodeError is not a requests.RequestException: nothing catches it)
DescriptionRaises(resp) ==
    resp.jsonDescription # NoDescription /\ DecodeRaises(resp.jsonDescription)

\* What a call that raises gives its caller
Raised == [raised |-> "UnicodeDecodeError"]
IsRaised(r) == "raised" \in DOMAIN r

\* fetch_availability: the description it settles on
Description(resp) ==
    LET description ==
            IF resp.jsonDescription = NoDescription THEN NoDescription
            ELSE clean_html_description(unicode_escape(resp.jsonDescription))
    IN  IF description = NoDescription \/ description = <<>> \/ LooksLikeBisac(description)
        THEN (IF resp.article # NoDescription
              THEN clean_html_description(resp.article)
              ELSE description)
        ELSE description

\* fetch_availability that takes a count as soon as one of the two is present
fetch_availability_EitherCount(book_id, resp) ==
    IF ~resp.ok
    THEN [is_available |-> FALSE, available_copies |-> 0, owned_copies |-> 0,
          description |-> NoDescription]
    ELSE IF DescriptionRaises(resp) THEN Raised
    ELSE IF resp.availableCopies # Absent \/ resp.ownedCopies # Absent
    THEN [is_available |-> resp.availableCopies > 0,
          available_copies |-> IF resp.availableCopies = Absent THEN 0
                               ELSE resp.availableCopies,
          owned_copies |-> IF resp.ownedCopies = Absent THEN 0 ELSE resp.ownedCopies,
          description |-> Description(resp)]
    ELSE IF resp.isAvailable # "absent"
    THEN [is_available |-> resp.isAvailable = "true", available_copies |-> 0,
          owned_copies |-> 0, description |-> Description(resp)]
    ELSE [is_available |-> FALSE, available_copies |-> 0, owned_copies |-> 0,
          description |-> Description(resp)]

\* fetch_availability whose except branch reports the book as available
fetch_availability_FailureAvailable(book_id, resp) ==
    IF ~resp.ok
    THEN [is_available |-> TRUE, available_copies |-> 0, owned_copies |-> 0,
          description |-> NoDescription]
    ELSE [is_available |-> resp.availableCopies > 0,
          available_copies |-> IF resp.availableCopies = Absent THEN 0
                               ELSE resp.availableCopies,
          owned_copies |-> IF resp.ownedCopies = Absent THEN 0 ELSE resp.ownedCopies,
          description |-> NoDescription]

\* fetch_availability with the response the request came back with
fetch_availability(book_id, resp) ==
    IF ~resp.ok
    THEN [is_available |-> FALSE, available_copies |-> 0, owned_copies |-> 0,
          description |-> NoDescription]
    ELSE IF DescriptionRaises(resp) THEN Raised
    ELSE IF resp.availableCopies # Absent /\ resp.ownedCopies # Absent
    THEN [is_available |-> resp.availableCopies > 0,
          available_copies |-> resp.availableCopies,
          owned_copies |-> resp.ownedCopies,
          description |-> Description(resp)]
    ELSE IF resp.isAvailable # "absent"
    THEN [is_available |-> resp.isAvailable = "true", available_copies |-> 0,
          owned_copies |-> 0, description |-> Description(resp)]
    ELSE [is_available |-> FALSE, available_copies |-> 0, owned_copies |-> 0,
          description |-> Description(resp)]

\* check_by_author.py: its own copy of fetch_availability
check_by_author_fetch_availability(book_id, resp) ==
    IF ~resp.ok
    THEN [is_available |-> FALSE, available_copies |-> 0, owned_copies |-> 0,
          description |-> NoDescription]
    ELSE IF DescriptionRaises(resp) THEN Raised
    ELSE IF resp.availableCopies # Absent /\ resp.ownedCopies # Absent
    THEN [is_available |-> resp.availableCopies > 0,
          available_copies |-> resp.availableCopies,
          owned_copies |-> resp.ownedCopies,
          description |-> Description(resp)]
    ELSE [is_available |-> FALSE, available_copies |-> 0, owned_copies |-> 0,
          description |-> Description(resp)]

\* check_all_books: the books its two loops visit, in order: the authors in
\* stored order (those with count == 0 skipped), each author's books in stored
\* order
RECURSIVE BooksInOrder(_, _)
BooksInOrder(books_data, i) ==
    IF i > Len(books_data) THEN <<>>
    ELSE (IF books_data[i].value.count = 0 THEN <<>>
          ELSE [k \in 1..Len(books_data[i].value.books) |->
                  [author |-> books_data[i].key, book |-> books_data[i].value.books[k]]])
         \o BooksInOrder(books_data, i + 1)

\* ... cut by `if limit and checked >= limit: break`
BooksToCheck(books_data, limit) == Limited(BooksInOrder(books_data, 1), limit)

\* check_all_books: the record appended for an available book
AvailableRecord(entry, r) ==
    [title |-> entry.book.title,
     author |-> entry.author,
     id |-> entry.book.id,
     url |-> media_url(entry.book.id),
     available_copies |-> r.available_copies,
     owned_copies |-> r.owned_copies,
     formats |-> entry.book.formats,
     description |-> r.description]

\* check_all_books: whether the book is appended (`if is_available:`)
Emits(r) == r.is_available

\* main: check_all_books(books_data, delay=args.delay, ...), with the command
\* line workflow.py builds for the stage
ProbeDelay == ParsedDelay(AvailabilityCmd, AvailabilityDefaultDelay)

\* One iteration of the inner loop of check_all_books; `slept` is the
\* time.sleep(delay) that ends the iteration.  An exception fetch_availability
\* lets through ends check_all_books and main: nothing is saved.
ProbeStep ==
    /\ pc = "probe_loop"
    /\ refinedArtifact.written
    /\ checked < Len(BooksToCheck(refinedArtifact.data, args.limit))
    /\ LET entry == BooksToCheck(refinedArtifact.data, args.limit)[checked + 1]
       IN  \E resp \in ProbeResponses :
              LET r == fetch_availability(entry.book.id, resp)
                  fetch(slept) ==
                      [stage |-> "probe", target |-> media_url(entry.book.id),
                       item |-> entry.author, ok |-> resp.ok, resp |-> resp,
                       slept |-> slept]
              IN  IF IsRaised(r)
                  THEN /\ pc' = "probe_raised"
                       /\ fetches' = Append(fetches, fetch(NoDelay))
                       /\ UNCHANGED available_books
                  ELSE /\ available_books' =
                             IF Emits(r)
                             THEN Append(available_books, AvailableRecord(entry, r))
                             ELSE available_books
                       /\ fetches' = Append(fetches, fetch(ProbeDelay))
                       /\ UNCHANGED pc
    /\ checked' = checked + 1
    /\ UNCHANGED <<args, wfVars, refineReport, auxVars, harvest, authors, results, searchArtifact, refined,
                   refinedArtifact, availableArtifact>>

\* main: save_results(available_books, args.output)
ProbeSave ==
    /\ pc = "probe_loop"
    /\ refinedArtifact.written
    /\ checked = Len(BooksToCheck(refinedArtifact.data, args.limit))
    /\ availableArtifact' = Artifact(AvailablePath(args.source), available_books)
    /\ pc' = "done"
    /\ UNCHANGED <<args, wfVars, refineReport, auxVars, harvest, authors, results, fetches, searchArtifact,
                   refined, refinedArtifact, checked, available_books>>

\* The stage runners run one after the other on the harvest artifacts:
\* search_combined.py, then refinement of its artifact, then the availability
\* check of the refined artifact
\* The harvest artifacts at the start: the episodes file matters only when the
\* authors file gives no author
HarvestStates ==
    { h \in [HarvestFiles -> {NoFile} \cup {File(l) : l \in AuthorLists}] :
        /\ h[BBCEpisodes] \in {NoFile, File(<<JaneDoe>>)}
        /\ h[BBCAuthors].authors # <<>> => h[BBCEpisodes] = NoFile
        /\ h[BookerAuthors] \in {NoFile, File(<<ASByatt>>)} }

\* A run starts with the scraper in a directory that holds at most the Hugo
\* authors, or with search_combined.py on harvest artifacts that exist; the
\* --delay of workflow.py is left at its default
InitStages ==
    /\ \/ /\ pc = "scrape_main"
          /\ \E source \in {"bbc", "all"}, limit \in LimitInputs :
                args = [source |-> source, limit |-> limit,
                        delay |-> WorkflowDefaultDelay]
          /\ scraped \in EpisodeLists
          /\ harvest \in { h \in [HarvestFiles -> {NoFile, File(<<ASByatt>>)}] :
                             \A f \in HarvestFiles :
                                h[f] # NoFile => (f = HugoAuthors /\ args.source = "all") }
       \/ /\ pc = "search_main"
          /\ \E source \in SearchSourceChoices, limit \in LimitInputs :
                args = [source |-> source, limit |-> limit,
                        delay |-> WorkflowDefaultDelay]
          /\ scraped = <<>>
          /\ harvest \in { h \in HarvestStates :
                             \A f \in HarvestFiles \ AuthorFiles(args.source) :
                                h[f] = NoFile }
    /\ authors = <<>>
    /\ results = <<>>
    /\ fetches = <<>>
    /\ searchArtifact = NoArtifact
    /\ refined = <<>>
    /\ refinedArtifact = NoArtifact
    /\ checked = 0
    /\ available_books = <<>>
    /\ availableArtifact = NoArtifact
    /\ harvestArtifact = NoArtifact
    /\ rerefined = <<>>
    /\ refineReport = NoReport
    /\ call = NoCall
    /\ stages = {}
    /\ child = NoChild
    /\ fs = {}
    /\ launched = <<>>
    /\ skipped = {}
    /\ exitCode = NotExited
    /\ invalid = {}

NextStages ==
    \/ ScrapeMain
    \/ SearchMain
    \/ SearchStep
    \/ SearchSave
    \/ RefineStage
    \/ ProbeStep
    \/ ProbeSave

SpecStages == InitStages /\ [][NextStages]_vars

-----------------------------------------------------------------------------
\* scrape_hugo_awards.py (scrape_booker_prize.py holds the same function)

\* key = (entry['author'].lower(), entry['title'].lower())
EntryKey(entry) == <<LowerStr(entry.author), LowerStr(entry.title)>>

\* deduplicate_entries that keeps the first entry of a key whatever comes later
RECURSIVE DeduplicateFrom_KeepsFirst(_, _, _)
DeduplicateFrom_KeepsFirst(entries, i, deduplicated) ==
    IF i > Len(entries) THEN deduplicated
    ELSE IF \E j \in 1..Len(deduplicated) :
               EntryKey(deduplicated[j]) = EntryKey(entries[i])
    THEN DeduplicateFrom_KeepsFirst(entries, i + 1, deduplicated)
    ELSE DeduplicateFrom_KeepsFirst(entries, i + 1, Append(deduplicated, entries[i]))

\* The loop of deduplicate_entries from entries[i] on.  seen[key] is always the
\* entry of `deduplicated` that has the key.
RECURSIVE DeduplicateFrom(_, _, _)
DeduplicateFrom(entries, i, deduplicated) ==
    IF i > Len(entries) THEN deduplicated
    ELSE LET entry == entries[i]
             key == EntryKey(entry)
             in_seen == \E j \in 1..Len(deduplicated) : EntryKey(deduplicated[j]) = key
             seen_key == deduplicated[CHOOSE j \in 1..Len(deduplicated) :
                                        EntryKey(deduplicated[j]) = key]
         IN  IF ~in_seen
             THEN DeduplicateFrom(entries, i + 1, Append(deduplicated, entry))
             ELSE IF entry.won /\ ~seen_key.won
             THEN DeduplicateFrom(entries, i + 1,
                     Append(SelectSeq(deduplicated, LAMBDA e : EntryKey(e) # key),
                            entry))
             ELSE DeduplicateFrom(entries, i + 1, deduplicated)

deduplicate_entries(entries) == DeduplicateFrom(entries, 1, <<>>)

\* The entries given to deduplicate_entries: two spellings of one author, two
\* titles, winners and nominees
HugoEntries ==
    { [author |-> a, title |-> t, won |-> w] :
        a \in {<<"A", "b">>, <<"a", "B">>}, t \in {<<"T", "o">>, <<"U", "p">>}, w \in BOOLEAN }
HugoEntryLists == UNION {[1..n -> HugoEntries] : n \in 0..MaxEntries}

-----------------------------------------------------------------------------
\* Single calls of the functions of the stage runners: names_match,
\* fetch_availability, search_audiobooks_for_author, deduplicate_entries

\* The names given to names_match
MatchNames ==
    {ASByattDots, ASByatt, JaneDoe, JDoe, TomSmith, JohnDoe, AlAnna, AlNana,
     JaneDoeSpaced, OnlyDots, <<>>}

\* The thresholds given to names_match, as <<num, den>>: the default 0.85,
\* 0.5 and 1.0
MatchThresholds == {<<ThresholdNum, ThresholdDen>>, <<1, 2>>, <<1, 1>>}

\* The page bodies given to fetch_availability
ProbeBodies ==
    {ProbeFailure} \cup
    { ProbeBody(a, o, flag, jd, art) :
        a \in {Absent, 0, 1, 3}, o \in {Absent, 1, 2, 5},
        flag \in {"absent", "true", "false"},
        jd \in {NoDescription, NovelLiteral, BisacLiteral, TaggedBisacLiteral,
                EscapedLiteral, BadEscapeLiteral, <<>>},
        art \in {NoDescription, AboutArticle} }

\* The search pages given to search_audiobooks_for_author: the heading absent
\* or with a number, the array missing, not valid JSON, or parsed
SearchPages ==
    {SearchFailure} \cup
    { SearchPage(h, "parsed", items) : h \in {NoHeading, 0, 2, 5}, items \in ItemLists }
    \cup { SearchPage(h, array, <<>>) :
             h \in {NoHeading, 0, 2, 5}, array \in {"missing", "unparseable"} }

Pending(fn, in) == [fn |-> fn, in |-> in, done |-> FALSE]
Returned(out) == [fn |-> call.fn, in |-> call.in, done |-> TRUE, out |-> out]

NamesMatchCall ==
    /\ call.fn = "names_match" /\ ~call.done
    /\ call' = Returned(names_match_threshold(call.in.searched_author,
                                              call.in.book_author,
                                              call.in.threshold[1],
                                              call.in.threshold[2]))
    /\ UNCHANGED <<args, pc, wfVars, refineReport, harvest, authors, results, fetches,
                   searchArtifact, refined, refinedArtifact, checked,
                   available_books, availableArtifact, scraped, harvestArtifact,
                   rerefined>>

FetchAvailabilityCall ==
    /\ call.fn = "fetch_availability" /\ ~call.done
    /\ call' = Returned(fetch_availability(call.in.book_id, call.in.resp))
    /\ UNCHANGED <<args, pc, wfVars, refineReport, harvest, authors, results, fetches,
                   searchArtifact, refined, refinedArtifact, checked,
                   available_books, availableArtifact, scraped, harvestArtifact,
                   rerefined>>

\* The same page body given to the copy in check_by_author.py
CheckByAuthorCall ==
    /\ call.fn = "fetch_availability" /\ call.done
    /\ "by_author" \notin DOMAIN call
    /\ call' = call @@ [by_author |->
                          check_by_author_fetch_availability(call.in.book_id,
                                                             call.in.resp)]
    /\ UNCHANGED <<args, pc, wfVars, refineReport, harvest, authors, results, fetches,
                   searchArtifact, refined, refinedArtifact, checked,
                   available_books, availableArtifact, scraped, harvestArtifact,
                   rerefined>>

DeduplicateCall ==
    /\ call.fn = "deduplicate_entries" /\ ~call.done
    /\ call' = Returned(deduplicate_entries(call.in.entries))
    /\ UNCHANGED <<args, pc, wfVars, refineReport, harvest, authors, results, fetches,
                   searchArtifact, refined, refinedArtifact, checked,
                   available_books, availableArtifact, scraped, harvestArtifact,
                   rerefined>>

\* deduplicate_entries given the list it returned
DeduplicateAgainCall ==
    /\ call.fn = "deduplicate_entries" /\ call.done
    /\ "again" \notin DOMAIN call
    /\ call' = call @@ [again |-> deduplicate_entries(call.out)]
    /\ UNCHANGED <<args, pc, wfVars, refineReport, harvest, authors, results, fetches,
                   searchArtifact, refined, refinedArtifact, checked,
                   available_books, availableArtifact, scraped, harvestArtifact,
                   rerefined>>

SearchResolverCall ==
    /\ call.fn = "search_audiobooks_for_author" /\ ~call.done
    /\ call' = Returned(search_audiobooks_for_author(call.in.author_name,
                                                     call.in.resp))
    /\ UNCHANGED <<args, pc, wfVars, refineReport, harvest, authors, results, fetches,
                   searchArtifact, refined, refinedArtifact, checked,
                   available_books, availableArtifact, scraped, harvestArtifact,
                   rerefined>>

InitFunctions ==
    /\ \/ \E a \in MatchNames, b \in MatchNames, t \in MatchThresholds :
             call = Pending("names_match",
                            [searched_author |-> a, book_author |-> b,
                             threshold |-> t])
       \/ \E resp \in ProbeBodies :
             call = Pending("fetch_availability", [book_id |-> "1001", resp |-> resp])
       \/ \E entries \in HugoEntryLists :
             call = Pending("deduplicate_entries", [entries |-> entries])
       \/ \E resp \in SearchPages, a \in {JaneDoe, ASByattDots} :
             call = Pending("search_audiobooks_for_author",
                            [author_name |-> a, resp |-> resp])
    /\ args = [source |-> "bbc", limit |-> NoLimit, delay |-> WorkflowDefaultDelay]
    /\ pc = "call"
    /\ stages = {}
    /\ child = NoChild
    /\ fs = {}
    /\ launched = <<>>
    /\ skipped = {}
    /\ exitCode = NotExited
    /\ invalid = {}
    /\ harvest = [f \in HarvestFiles |-> NoFile]
    /\ authors = <<>>
    /\ results = <<>>
    /\ fetches = <<>>
    /\ searchArtifact = NoArtifact
    /\ refined = <<>>
    /\ refinedArtifact = NoArtifact
    /\ checked = 0
    /\ available_books = <<>>
    /\ availableArtifact = NoArtifact
    /\ scraped = <<>>
    /\ harvestArtifact = NoArtifact
    /\ rerefined = <<>>
    /\ refineReport = NoReport

NextFunctions ==
    \/ NamesMatchCall
    \/ FetchAvailabilityCall
    \/ CheckByAuthorCall
    \/ DeduplicateCall
    \/ DeduplicateAgainCall
    \/ SearchResolverCall

SpecFunctions == InitFunctions /\ [][NextFunctions]_vars

-----------------------------------------------------------------------------
\* workflow.py

\* stages = set(args.stages) or all four; skip_scrape discards 'scrape'
StagesOf(stageList, skipScrape) ==
    LET s == IF stageList = <<>> THEN AllStages
             ELSE {stageList[i] : i \in DOMAIN stageList}
    IN  IF skipScrape THEN s \ {"scrape"} ELSE s

\* The harvest artifacts of a workflow source
HarvestOf(source) ==
    (IF source \in {"bbc", "both"} THEN {BBCAuthors, BBCEpisodes} ELSE {})
    \cup (IF source \in {"hugo", "both"} THEN {HugoAuthors} ELSE {})

\* The input artifact a stage declares
DeclaredInputs(stage, source) ==
    CASE stage = "search" -> HarvestOf(source)
      [] stage = "refine" -> {SearchResultsPath(source)}
      [] stage = "availability" -> {RefinedPath(source)}
      [] OTHER -> {}

InputExists(stage) == DeclaredInputs(stage, args.source) \cap fs # {}

\* The refine stage launched without looking for its input
RefineInputExists_Unchecked == TRUE

\* os.path.exists(input_file) / os.path.exists(refined_file)
RefineInputExists == SearchResultsPath(args.source) \in fs
AvailabilityInputExists == RefinedPath(args.source) \in fs

\* run_command ignoring the return code
run_command_IgnoresExitCode(rc) == TRUE

\* run_command taking only the return code 1 for a failure
run_command_OnlyOneFails(rc) == rc # 1

\* run_command's result for the child's return code
run_command(rc) == rc = 0

NextPc(p) ==
    CASE p = "scrape_bbc" -> "scrape_hugo"
      [] p = "scrape_hugo" -> "search"
      [] p = "search" -> "refine"
      [] p = "refine" -> "availability"
      [] p = "availability" -> "banner"

Launch(cmd) ==
    /\ child' = cmd
    /\ launched' = Append(launched,
                          [script |-> cmd.script, cmd |-> cmd, rc |-> NotExited,
                           inputExisted |-> InputExists(StageOf(cmd.script)),
                           present |-> RequiredInputs(cmd) \cap fs,
                           reads |-> {}, malformed |-> {}, writes |-> {}])
    /\ UNCHANGED <<args, stages, pc, fs, skipped, exitCode, invalid, stageVars>>

Skip(stage, warn) ==
    /\ pc' = NextPc(pc)
    /\ skipped' = IF warn
                  THEN skipped \cup {[stage |-> stage,
                                      inputExisted |-> InputExists(stage)]}
                  ELSE skipped
    /\ UNCHANGED <<args, stages, child, fs, launched, exitCode, invalid, stageVars>>

\* parser.parse_args() and the computation of `stages`
ParseArgs ==
    /\ pc = "parse"
    /\ IF args.source \notin WorkflowSourceChoices
       THEN /\ pc' = "exited"
            /\ exitCode' = 2
            /\ UNCHANGED stages
       ELSE /\ \E stageList \in StageLists, skipScrape \in BOOLEAN :
                  stages' = StagesOf(stageList, skipScrape)
            /\ pc' = "scrape_bbc"
            /\ UNCHANGED exitCode
    /\ UNCHANGED <<args, child, fs, launched, skipped, invalid, stageVars>>

StageScrapeBBC ==
    /\ pc = "scrape_bbc" /\ child = NoChild
    /\ IF "scrape" \in stages /\ args.source \in {"bbc", "both"}
       THEN Launch(ScrapeBBCCmd)
       ELSE Skip("scrape", FALSE)

StageScrapeHugo ==
    /\ pc = "scrape_hugo" /\ child = NoChild
    /\ IF "scrape" \in stages /\ args.source \in {"hugo", "both"}
       THEN Launch(ScrapeHugoCmd)
       ELSE Skip("scrape", FALSE)

StageSearch ==
    /\ pc = "search" /\ child = NoChild
    /\ IF "search" \in stages
       THEN Launch(SearchCmd)
       ELSE Skip("search", FALSE)

StageRefine ==
    /\ pc = "refine" /\ child = NoChild
    /\ IF "refine" \in stages
       THEN IF RefineInputExists
            THEN Launch(RefineCmd)
            ELSE Skip("refine", TRUE)
       ELSE Skip("refine", FALSE)

StageAvailability ==
    /\ pc = "availability" /\ child = NoChild
    /\ IF "availability" \in stages
       THEN IF AvailabilityInputExists
            THEN Launch(AvailabilityCmd)
            ELSE Skip("availability", TRUE)
       ELSE Skip("availability", FALSE)

\* The subprocess ends; subprocess.run returns and run_command's result decides
\* whether main goes on or returns 1
ChildExit ==
    /\ child # NoChild
    /\ \E o \in ChildOutcomes(child, fs, invalid) :
          /\ fs' = fs \cup o.writes
          /\ invalid' = invalid \ o.writes
          /\ launched' = [launched EXCEPT ![Len(launched)] =
                            [@ EXCEPT !.rc = o.rc, !.reads = o.reads,
                                      !.malformed = o.reads \cap invalid,
                                      !.writes = o.writes]]
          /\ IF run_command(o.rc)
             THEN pc' = NextPc(pc) /\ UNCHANGED exitCode
             ELSE pc' = "exited" /\ exitCode' = 1
    /\ child' = NoChild
    /\ UNCHANGED <<args, stages, skipped, stageVars>>

\* The completion banner and `return 0`
Banner ==
    /\ pc = "banner"
    /\ pc' = "exited"
    /\ exitCode' = 0
    /\ UNCHANGED <<args, stages, child, fs, launched, skipped, invalid, stageVars>>

\* The artifacts whose presence decides a run of the given source
RelevantFiles(source) ==
    (HarvestOf(source) \ {BBCEpisodes})
    \cup {SearchResultsPath(source), RefinedPath(source), DefaultRefineInput}

Init ==
    /\ \E source \in SourceInputs, limit \in LimitInputs, delay \in DelayInputs :
          args = [source |-> source, limit |-> limit, delay |-> delay]
    /\ stages = {}
    /\ pc = "parse"
    /\ child = NoChild
    /\ fs \in SUBSET RelevantFiles(args.source)
    /\ invalid \in SUBSET fs
    /\ launched = <<>>
    /\ skipped = {}
    /\ exitCode = NotExited
    /\ StagesIdle

Next ==
    \/ ParseArgs
    \/ StageScrapeBBC
    \/ StageScrapeHugo
    \/ StageSearch
    \/ StageRefine
    \/ StageAvailability
    \/ ChildExit
    \/ Banner

Spec == Init /\ [][Next]_vars

-----------------------------------------------------------------------------
\* Properties of the workflow (specification Spec)

StageScripts(stage) == {i \in 1..Len(launched) : StageOf(launched[i].script) = stage}
WasLaunched(stage) == StageScripts(stage) # {}
WasSkipped(stage) == \E r \in skipped : r.stage = stage
AllSucceeded == \A i \in 1..Len(launched) : launched[i].rc = 0
SingleSources == {"bbc", "hugo"}

Rank(script) ==
    CASE script = "scrape_episodes.py" -> 1
      [] script = "scrape_hugo_awards.py" -> 2
      [] script = "search_combined.py" -> 3
      [] script = "refine_audiobooks.py" -> 4
      [] script = "check_availability.py" -> 5

\* C1: in a run for a single source with all four stages selected and every
\* subprocess succeeding, Refine reads the Search artifact of the source (the
\* --input path), writes the refined artifact of the source, and Probe is then
\* launched rather than skipped.
C1_RefineFeedsProbe ==
    (/\ args.source \in SingleSources
     /\ stages = AllStages
     /\ pc \in {"availability", "banner", "exited"}
     /\ AllSucceeded
     /\ WasLaunched("refine"))
    => /\ \A i \in StageScripts("refine") :
             /\ launched[i].reads = {SearchResultsPath(args.source)}
             /\ RefinedPath(args.source) \in launched[i].writes
       /\ ~WasSkipped("availability")

C7_StageOrder ==
    /\ \A i, j \in 1..Len(launched) :
          i < j => Rank(launched[i].script) < Rank(launched[j].script)
    /\ \A i \in 1..Len(launched) : StageOf(launched[i].script) \in stages
    /\ \A i \in 1..Len(launched) :
          launched[i].rc = NotExited => (i = Len(launched) /\ child # NoChild)
    /\ child # NoChild => launched[Len(launched)].rc = NotExited
    /\ (pc = "exited" /\ exitCode = 0)
          => \A st \in stages :
                \/ WasLaunched(st) /\ \A i \in StageScripts(st) : launched[i].rc = 0
                \/ WasSkipped(st)

\* C7 witness: a run of all four stages that ended with exit code 0
C7_Witness ==
    /\ pc = "exited" /\ exitCode = 0
    /\ stages = AllStages
    /\ \A st \in AllStages : WasLaunched(st)

\* test_e2e.py run_test: PASSED iff the workflow's return code is 0
run_test_passed == exitCode = 0

\* C8: for every source the end-to-end test can select (bbc, hugo, booker,
\* nobel) the workflow, run with that source and a limit, accepts the source
\* and, when nothing it launches fails, ends with exit code 0, so that run_test
\* reports PASSED.
C8_E2ESourcesPass ==
    (/\ pc = "exited"
     /\ args.source \in E2ESources
     /\ args.limit # NoLimit
     /\ AllSucceeded)
    => run_test_passed

\* The subprocesses of the stage runners that have exited
ExitedRunners ==
    {i \in 1..Len(launched) :
       /\ StageOf(launched[i].script) \in {"search", "refine", "availability"}
       /\ launched[i].rc # NotExited}

\* C11: a stage runner (search_combined.py, refine_audiobooks.py,
\* check_availability.py) started while its required input artifact does not
\* exist ends with a non-zero exit code and writes no output artifact.
C11_MissingInputFails ==
    \A i \in ExitedRunners :
       launched[i].present = {}
          => /\ launched[i].rc # 0
             /\ launched[i].writes = {}

\* C12: a stage runner whose input artifact (the file it loads) exists but is
\* not valid JSON exits non-zero and creates or modifies no artifact: its own
\* output is not written and the artifacts of the earlier stages are as they
\* were.
C12_MalformedInputFails ==
    \A i \in ExitedRunners :
       launched[i].malformed # {}
          => /\ launched[i].rc # 0
             /\ launched[i].writes = {}
             /\ launched[i].malformed \subseteq invalid

\* C12 witness: Search and Refine succeeded and check_availability.py was then
\* started on a refined artifact that is not valid JSON
C12_Witness ==
    /\ pc = "exited"
    /\ \E i \in ExitedRunners :
          /\ launched[i].script = "check_availability.py"
          /\ launched[i].malformed = {RefinedPath(args.source)}
    /\ \E i \in ExitedRunners :
          launched[i].script = "refine_audiobooks.py" /\ launched[i].rc = 0
    /\ \E i \in ExitedRunners :
          launched[i].script = "search_combined.py" /\ launched[i].writes # {}

\* C27: when a launched stage subprocess exits with a non-zero code,
\* workflow.main returns 1 at once: the failed subprocess is the last one
\* launched, the run has ended with exit code 1 and not through the completion
\* banner, and the artifacts the earlier stages of the run wrote are still
\* there
C27_FailureEndsRun ==
    \A i \in 1..Len(launched) :
       launched[i].rc \notin {0, NotExited}
       => /\ i = Len(launched)
          /\ child = NoChild
          /\ pc = "exited"
          /\ exitCode = 1
          /\ \A j \in 1..(i - 1) :
                /\ launched[j].rc = 0
                /\ launched[j].writes \subseteq fs

\* C27 witness: a run in which a stage wrote its artifact and the next
\* subprocess failed
C27_Witness ==
    /\ Len(launched) >= 2
    /\ launched[Len(launched) - 1].writes # {}
    /\ launched[Len(launched)].rc \notin {0, NotExited}
    /\ pc = "exited"

\* C26: whatever --source workflow.py accepts (bbc, hugo, both), the
\* --source it puts on the command line of search_combined.py is one that
\* search_combined.py accepts, so the Search stage does not end on argument
\* validation (argparse's exit code 2)
C26_SearchSourceAccepted ==
    \A i \in 1..Len(launched) :
       launched[i].script = "search_combined.py"
       => /\ launched[i].cmd.source \in SearchSourceChoices
          /\ launched[i].rc # 2

-----------------------------------------------------------------------------
\* Properties of the stage runners (specification SpecStages)

SearchFetches == SelectSeq(fetches, LAMBDA f : f.stage = "search")
ProbeFetches == SelectSeq(fetches, LAMBDA f : f.stage = "probe")
BookX == BookOfItem(ItemX)
CopiesOneOfOne == ProbeBody(1, 1, "true", NovelLiteral, NoDescription)

\* The end-to-end scenario: the one queried author is Jane Doe and the search
\* gave the one record {title "X", author "J. Doe"}
C2_Scenario ==
    /\ authors = <<JaneDoe>>
    /\ refinedArtifact.written
    /\ DictKeys(searchArtifact.data) = <<JaneDoe>>
    /\ searchArtifact.data[1].value.books = <<BookX>>

C3_EmittedHaveCopies ==
    \A i \in 1..Len(available_books) : available_books[i].available_copies > 0

\* C4: per-item failure isolation.  Search: every author of the list
\* search_authors works on is fetched exactly once, in list order, the artifact
\* has exactly one entry per author, and the entry of an author whose fetch
\* failed is count 0 with no books.  Probe: a failed fetch gives
\* (not available, 0, 0, no description), the book is not emitted, and every
\* later book is still probed.  No stage stops once it has fetched: after
\* every fetch, failed or not, the loop is at its next item or at the save.
C4_FailureIsolation ==
    /\ searchArtifact.written
       => /\ [i \in 1..Len(SearchFetches) |-> SearchFetches[i].item] = authors
          /\ DictKeys(searchArtifact.data) = authors
          /\ \A i \in 1..Len(SearchFetches) :
                ~SearchFetches[i].ok
                   => /\ searchArtifact.data[i].value.count = 0
                      /\ searchArtifact.data[i].value.books = <<>>
    /\ \A k \in 1..Len(ProbeFetches) :
          ~ProbeFetches[k].ok
             => /\ fetch_availability("", ProbeFetches[k].resp)
                     = [is_available |-> FALSE, available_copies |-> 0,
                        owned_copies |-> 0, description |-> NoDescription]
                /\ ~\E i \in 1..Len(available_books) :
                       /\ available_books[i].author = ProbeFetches[k].item
                       /\ available_books[i].url = ProbeFetches[k].target
    /\ availableArtifact.written
       => [k \in 1..Len(ProbeFetches) |-> ProbeFetches[k].target]
            = [k \in 1..Len(BooksToCheck(refinedArtifact.data, args.limit)) |->
                 media_url(BooksToCheck(refinedArtifact.data, args.limit)[k].book.id)]
    /\ pc = "stopped" => fetches = <<>>
    /\ pc = "search_loop" => Len(SearchFetches) <= Len(authors)
    /\ pc = "refine" => searchArtifact.written
    /\ pc = "probe_loop"
       => /\ refinedArtifact.written
          /\ checked = Len(ProbeFetches)
          /\ checked <= Len(BooksToCheck(refinedArtifact.data, args.limit))

\* C4 witness: a run to the end in which a search fetch failed and a later
\* author was searched, and a probe fetch failed and a later book was probed
C4_Witness ==
    /\ pc = "done"
    /\ \E i, j \in 1..Len(SearchFetches) : i < j /\ ~SearchFetches[i].ok
    /\ \E i, j \in 1..Len(ProbeFetches) : i < j /\ ~ProbeFetches[i].ok

\* C5: the entry recorded for an author whose catalog fetch failed has count
\* 0, no books, and as url the search URL that was attempted for the author.
C5_FailedSearchKeepsUrl ==
    searchArtifact.written
    => \A i \in 1..Len(SearchFetches) :
          ~SearchFetches[i].ok
             => /\ searchArtifact.data[i].value.count = 0
                /\ searchArtifact.data[i].value.books = <<>>
                /\ searchArtifact.data[i].value.url = SearchFetches[i].target

\* The authors harvested from one source
HarvestedFrom(source) ==
    {LoadedAuthors(source)[i] : i \in 1..Len(LoadedAuthors(source))}

\* C9: a run over more than one source treats each source as an independent
\* instance: no Search artifact mixes authors harvested from different
\* sources (the authors of an artifact all come from one source).
C9_ArtifactOfOneSource ==
    searchArtifact.written
    => \E source \in {"bbc", "hugo", "booker"} :
          \A i \in 1..Len(searchArtifact.data) :
             searchArtifact.data[i].key \in HarvestedFrom(source)

\* C10: the list the Probe stage writes holds no two records with the same
\* catalog item id.
C10_NoDuplicateIds ==
    availableArtifact.written
    => \A i, j \in 1..Len(availableArtifact.data) :
          i # j => availableArtifact.data[i].id # availableArtifact.data[j].id

\* prefix is the first n elements of list
IsFirstN(prefix, list, n) ==
    /\ Len(prefix) = n
    /\ n <= Len(list)
    /\ \A k \in 1..n : prefix[k] = list[k]

\* C20: with a limit N >= 1, the Search stage fetches exactly the first
\* min(N, number of deduplicated authors) authors, in list order, and no other;
\* the Probe stage makes at most N fetches, for the first N books in artifact
\* order (authors in stored order, each author's books in stored order); the
\* Harvest stage persists only the first N harvested episodes.
C20_LimitFirstN ==
    LimitSet(args.limit)
    => LET N == args.limit
           unique == unique_authors(LoadedAuthors(args.source))
           books == BooksInOrder(refinedArtifact.data, 1)
       IN  /\ harvestArtifact.written
              => IsFirstN(harvestArtifact.data, scraped, Min(N, Len(scraped)))
           /\ IsFirstN([k \in 1..Len(SearchFetches) |-> SearchFetches[k].item],
                       unique, Len(SearchFetches))
           /\ Len(SearchFetches) <= N
           /\ searchArtifact.written => Len(SearchFetches) = Min(N, Len(unique))
           /\ Len(ProbeFetches) <= N
           /\ Len(ProbeFetches) <= Len(books)
           /\ \A k \in 1..Len(ProbeFetches) :
                 /\ ProbeFetches[k].target = media_url(books[k].book.id)
                 /\ ProbeFetches[k].item = books[k].author
           /\ availableArtifact.written => Len(ProbeFetches) = Min(N, Len(books))

\* C20 witness: a run to the end in which the limit cut the episodes saved,
\* the authors searched and the books probed
C20_Witness ==
    /\ pc = "done"
    /\ LimitSet(args.limit)
    /\ harvestArtifact.written
    /\ Len(scraped) > args.limit
    /\ Len(unique_authors(LoadedAuthors(args.source))) > args.limit
    /\ Len(SearchFetches) = args.limit
    /\ Len(BooksInOrder(refinedArtifact.data, 1)) > args.limit
    /\ Len(ProbeFetches) = args.limit

\* C30: a limit of 0 is no limit: workflow.py puts no --limit on the command
\* line of any stage, and with limit 0 the harvest script saves every episode,
\* search_authors searches every deduplicated author and check_all_books
\* probes every book
C30_ZeroLimitIsNoLimit ==
    /\ \A i \in 1..Len(launched) : launched[i].cmd.limit # 0
    /\ args.limit = 0
       => LET unique == unique_authors(LoadedAuthors(args.source))
              books == BooksInOrder(refinedArtifact.data, 1)
          IN  /\ \A cmd \in {ScrapeBBCCmd, ScrapeHugoCmd, SearchCmd, RefineCmd,
                              AvailabilityCmd} : cmd.limit = NoLimit
              /\ harvestArtifact.written => harvestArtifact.data = scraped
              /\ pc = "scrape_main" \/ harvestArtifact.written \/ scraped = <<>>
              /\ pc \in {"search_loop", "refine", "probe_loop", "probe_raised", "done"}
                 => authors = unique
              /\ searchArtifact.written
                 => /\ DictKeys(searchArtifact.data) = unique
                    /\ Len(SearchFetches) = Len(unique)
              /\ availableArtifact.written
                 => /\ Len(ProbeFetches) = Len(books)
                    /\ \A k \in 1..Len(books) :
                          ProbeFetches[k].target = media_url(books[k].book.id)

\* C30 witness: a run to the end with limit 0 that saved two episodes,
\* searched two authors and probed two books
C30_Witness ==
    /\ pc = "done"
    /\ args.limit = 0
    /\ harvestArtifact.written
    /\ Len(harvestArtifact.data) >= 2
    /\ Len(SearchFetches) >= 2
    /\ Len(ProbeFetches) >= 2

\* C21: within the Search stage and within the Probe stage, between any two
\* consecutive outbound fetches there is a sleep, and its length is the --delay
\* of the workflow.py run
C21_PacedByWorkflowDelay ==
    \A i \in 1..(Len(fetches) - 1) :
       fetches[i].stage = fetches[i + 1].stage
       => /\ fetches[i].slept # NoDelay
          /\ fetches[i].slept = args.delay

-----------------------------------------------------------------------------
\* Properties of single calls (specification SpecFunctions)

MatchReturned == call.fn = "names_match" /\ call.done
DefaultThreshold == <<ThresholdNum, ThresholdDen>>

\* C13: symmetry of the name matcher with the default threshold:
\* names_match(a, b) = names_match(b, a) for all names a and b, also where
\* neither normalized name equals or contains the other.
C13_Symmetric ==
    (MatchReturned /\ call.in.threshold = DefaultThreshold)
    => call.out = names_match(call.in.book_author, call.in.searched_author)

\* C14: names_match(q, c, t) is true exactly when the normalized names
\* (lowercase, punctuation removed, whitespace collapsed) are equal, or one is
\* a substring of the other, or their similarity ratio is >= t; names with
\* identical normalizations match, "A.S. Byatt" matches "AS Byatt", and
\* "Tom Smith" does not match "John Doe".
C14_MatchDecision ==
    /\ normalize_name(ASByattDots) = <<"a", "s", " ", "b", "y", "a", "t", "t">>
    /\ normalize_name(JaneDoeSpaced) = <<"j", "a", "n", "e", " ", "d", "o", "e">>
    /\ normalize_name(OnlyDots) = <<>>
    /\ MatchReturned
       => LET q == normalize_name(call.in.searched_author)
              c == normalize_name(call.in.book_author)
              t == call.in.threshold
          IN  /\ call.out = (\/ q = c
                             \/ IsSubstring(q, c)
                             \/ IsSubstring(c, q)
                             \/ RatioAtLeast(q, c, t[1], t[2]))
              /\ q = c => call.out
              /\ (call.in.searched_author = ASByattDots
                  /\ call.in.book_author = ASByatt) => call.out
              /\ (call.in.searched_author = TomSmith
                  /\ call.in.book_author = JohnDoe
                  /\ t = DefaultThreshold) => ~call.out

\* C14 witness: a match decided by the similarity ratio alone
C14_Witness ==
    /\ MatchReturned
    /\ call.out
    /\ LET q == normalize_name(call.in.searched_author)
           c == normalize_name(call.in.book_author)
       IN  q # c /\ ~IsSubstring(q, c) /\ ~IsSubstring(c, q)

ProbeCalled == call.fn = "fetch_availability" /\ call.done
ProbeReturned == ProbeCalled /\ ~IsRaised(call.out)
Triple(r) == <<r.is_available, r.available_copies, r.owned_copies>>

\* C18: on a fetched page body, fetch_availability returns
\* (a > 0, a, o, description) when both "availableCopies":a and "ownedCopies":o
\* are present (3/5 gives (true, 3, 5), 0/2 gives (false, 0, 2)); when a count
\* is absent and the isAvailable flag is present, (flag, 0, 0, description);
\* when the flag is absent too, (false, 0, 0, description).
C18_ProbeResult ==
    (ProbeReturned /\ call.in.resp.ok)
    => LET body == call.in.resp
           a == body.availableCopies
           o == body.ownedCopies
       IN  /\ (a # Absent /\ o # Absent) => Triple(call.out) = <<a > 0, a, o>>
           /\ (a = 3 /\ o = 5) => Triple(call.out) = <<TRUE, 3, 5>>
           /\ (a = 0 /\ o = 2) => Triple(call.out) = <<FALSE, 0, 2>>
           /\ ((a = Absent \/ o = Absent) /\ body.isAvailable = "true")
                 => Triple(call.out) = <<TRUE, 0, 0>>
           /\ ((a = Absent \/ o = Absent) /\ body.isAvailable = "false")
                 => Triple(call.out) = <<FALSE, 0, 0>>
           /\ ((a = Absent \/ o = Absent) /\ body.isAvailable = "absent")
                 => Triple(call.out) = <<FALSE, 0, 0>>
           /\ call.out.description
                 \in {NoDescription}
                     \cup (IF body.jsonDescription = NoDescription THEN {}
                           ELSE {clean_html_description(
                                    unicode_escape(body.jsonDescription))})
                     \cup (IF body.article = NoDescription THEN {}
                           ELSE {clean_html_description(body.article)})

\* C18 witness: a body with one count present, the other absent, and the flag
\* true, for which the call has returned
C18_Witness ==
    /\ ProbeReturned
    /\ call.in.resp.ok
    /\ call.in.resp.availableCopies = 3
    /\ call.in.resp.ownedCopies = Absent
    /\ call.in.resp.isAvailable = "true"

\* C22: the description fetch_availability returns never begins with a
\* category-code prefix: a description from the catalog object that begins
\* with "FICTION " or "Fiction /" is rejected, and the result is the cleaned
\* text of the <article> block, or no description when the block is absent.
C22_BisacRejected ==
    (ProbeReturned /\ call.in.resp.ok)
    => LET body == call.in.resp
       IN  /\ ~LooksLikeBisac(call.out.description)
           /\ (/\ body.jsonDescription # NoDescription
               /\ LooksLikeBisac(clean_html_description(
                                    unicode_escape(body.jsonDescription))))
              => call.out.description =
                    IF body.article # NoDescription
                    THEN clean_html_description(body.article)
                    ELSE NoDescription

\* C23: on every fetched page body fetch_availability returns a result and
\* does not raise
C23_ProbeNeverRaises ==
    (ProbeCalled /\ call.in.resp.ok) => ~IsRaised(call.out)

\* C24: on every page body and every fetch outcome, fetch_availability of
\* check_availability.py and fetch_availability of check_by_author.py return
\* the same (is_available, available_copies, owned_copies, description)
C24_ParsersAgree ==
    (ProbeCalled /\ "by_author" \in DOMAIN call) => call.by_author = call.out

DedupReturned == call.fn = "deduplicate_entries" /\ call.done

\* C25: the list deduplicate_entries returns holds exactly one entry for each
\* case-insensitive (author, title) key of its input and no entry that is not
\* in the input; the entry kept for a key is a winner if and only if some
\* input entry with the key is a winner; and deduplicate_entries applied to
\* the list it returned returns the same list.
C25_Deduplicated ==
    DedupReturned
    => LET input == call.in.entries
           output == call.out
       IN  /\ \A i \in 1..Len(input) :
                 \E j \in 1..Len(output) : EntryKey(output[j]) = EntryKey(input[i])
           /\ \A j, k \in 1..Len(output) :
                 EntryKey(output[j]) = EntryKey(output[k]) => j = k
           /\ \A j \in 1..Len(output) : \E i \in 1..Len(input) : output[j] = input[i]
           /\ \A j \in 1..Len(output) :
                 output[j].won <=> \E i \in 1..Len(input) :
                                      /\ EntryKey(input[i]) = EntryKey(output[j])
                                      /\ input[i].won
           /\ "again" \in DOMAIN call => call.again = output

\* C25 witness: a list of three entries in which a nominee is followed by an
\* entry of another key and by a winner of the nominee's key in another
\* spelling, deduplicated twice
C25_Witness ==
    /\ DedupReturned
    /\ "again" \in DOMAIN call
    /\ Len(call.in.entries) = 3
    /\ ~call.in.entries[1].won
    /\ call.in.entries[3].won
    /\ call.in.entries[1] # call.in.entries[3]
    /\ EntryKey(call.in.entries[1]) = EntryKey(call.in.entries[3])
    /\ EntryKey(call.in.entries[1]) # EntryKey(call.in.entries[2])
    /\ call.out = <<call.in.entries[2], call.in.entries[3]>>

SearchReturned == call.fn = "search_audiobooks_for_author" /\ call.done

-----------------------------------------------------------------------------
\* Properties of refinement (specification SpecRefine)

\* The indices of the books whose author matches the searched author
Kept(searched_author, books) ==
    {k \in 1..Len(books) : names_match(searched_author, books[k].author)}

\* C15: refinement neither fabricates nor edits records: for every author the
\* refined list of books is the input list with the books whose author does
\* not match the searched author left out, the others in their order and
\* unchanged in every field; also when the input's count exceeds the number of
\* books it holds.
C15_RefineKeepsOrDrops ==
    refinedArtifact.written
    => /\ DictKeys(refined) = DictKeys(searchArtifact.data)
       /\ DictKeys(refinedArtifact.data) = DictKeys(searchArtifact.data)
       /\ \A i \in 1..Len(searchArtifact.data) :
             LET searched_author == searchArtifact.data[i].key
                 original_books == searchArtifact.data[i].value.books
                 books == refined[i].value.books
             IN  /\ books = SelectIndices(original_books,
                                          Kept(searched_author, original_books), 1)
                 /\ Len(books) <= Len(original_books)
                 /\ \A k \in 1..Len(books) :
                       \E j \in 1..Len(original_books) : books[k] = original_books[j]
                 /\ refinedArtifact.data[i].value.books = books

\* C15 witness: an input whose count is 5 and which holds three books, two
\* kept and one discarded
C15_Witness ==
    /\ refinedArtifact.written
    /\ \E i \in 1..Len(searchArtifact.data) :
          /\ searchArtifact.data[i].value.count = 5
          /\ Len(searchArtifact.data[i].value.books) = 3
          /\ Len(refined[i].value.books) = 2

\* The counts refine_results stores for an input entry
CountsRecomputed(input, output) ==
    /\ output.original_count = input.count
    /\ output.count = Len(output.books)
    /\ output.filtered_count = output.original_count - Len(output.books)

\* C16: in every entry refine_results produces, filtered_count =
\* original_count - len(books) and count = len(books), computed from the counts
\* of this run (original_count is the count of the input) and not taken from
\* the input, in the first refinement and in a refinement of the refined
\* artifact.
C16_RemovedCount ==
    /\ refinedArtifact.written
       => \A i \in 1..Len(searchArtifact.data) :
             CountsRecomputed(searchArtifact.data[i].value, refined[i].value)
    /\ pc = "rerefined"
       => \A i \in 1..Len(refinedArtifact.data) :
             CountsRecomputed(refinedArtifact.data[i].value, rerefined[i].value)

\* C16 witness: an input entry that carries counts of an earlier refinement
\* (filtered_count 7) and whose count is 5 with one book, refined twice
C16_Witness ==
    /\ pc = "rerefined"
    /\ \E i \in 1..Len(searchArtifact.data) :
          /\ "filtered_count" \in DOMAIN searchArtifact.data[i].value
          /\ refined[i].value.filtered_count \in {4, 5}

\* C28: the delta refinement reports is truthful: for every author,
\* filtered_count is the number of input records the matcher discarded, and
\* the author is listed as changed (on the console and in the changes CSV) if
\* and only if at least one of its records was discarded; also when the
\* input's count exceeds the number of records it holds.
C28_TruthfulDelta ==
    refinedArtifact.written
    => \A i \in 1..Len(searchArtifact.data) :
          LET e == searchArtifact.data[i]
              discarded == Len(e.value.books) - Cardinality(Kept(e.key, e.value.books))
          IN  /\ refined[i].value.filtered_count = discarded
              /\ (\E k \in 1..Len(refineReport.authors_changed) :
                     refineReport.authors_changed[k].author = e.key) <=> discarded > 0
              /\ (\E row \in refineReport.changes_csv : row.author = e.key)
                    <=> discarded > 0

\* C29: a record whose catalog-reported author normalizes to the empty string
\* (empty, or punctuation only) matches every searched author through the
\* containment rule, so refinement retains it under every query
C29_EmptyAuthorRetained ==
    refinedArtifact.written
    => \A i \in 1..Len(searchArtifact.data) :
          \A k \in 1..Len(searchArtifact.data[i].value.books) :
             LET searched_author == searchArtifact.data[i].key
                 book == searchArtifact.data[i].value.books[k]
             IN  normalize_name(book.author) = <<>>
                 => /\ IsSubstring(normalize_name(book.author),
                                   normalize_name(searched_author))
                    /\ \E j \in 1..Len(refined[i].value.books) :
                          refined[i].value.books[j] = book

\* C29 witness: under one author, a record of another author and a record
\* whose author is "...": the first is discarded, the second retained
C29_Witness ==
    /\ refinedArtifact.written
    /\ \E i \in 1..Len(searchArtifact.data) :
          /\ Len(searchArtifact.data[i].value.books) = 2
          /\ searchArtifact.data[i].value.books[2].author = OnlyDots
          /\ refined[i].value.books = <<searchArtifact.data[i].value.books[2]>>

\* C17: refining the artifact save_refined_results wrote gives, for every
\* author, filtered_count = 0 and the list of books of the first refinement,
\* whatever the search results were (also with a count above the number of
\* books).
C17_RefineIdempotent ==
    pc = "rerefined"
    => /\ DictKeys(rerefined) = DictKeys(refined)
       /\ \A i \in 1..Len(refined) :
             /\ rerefined[i].value.filtered_count = 0
             /\ rerefined[i].value.books = refined[i].value.books
             /\ rerefined[i].value.count = refined[i].value.count
       /\ clean_results(rerefined) = refinedArtifact.data

\* C17 witness: a second refinement after a first one that removed something
\* from an input whose count was above the number of its books and kept a
\* book
C17_Witness ==
    /\ pc = "rerefined"
    /\ \E i \in 1..Len(refined) :
          /\ searchArtifact.data[i].value.count > Len(searchArtifact.data[i].value.books)
          /\ refined[i].value.filtered_count > 0
          /\ refined[i].value.books # <<>>

====
